---- MODULE Spec2Model ----
(***************************************************************************)
(* Grid path-finding engine: the binary min-heap PriorityQueue, the        *)
(* coordinate/key codec, path reconstruction and the four search drivers   *)
(* (runBFS, runDFSRecursive, runDijkstra, runAStar) with their traces.     *)
(***************************************************************************)
EXTENDS Integers, Sequences, FiniteSets, Bags, TLC

(***************************************************************************)
(* Bounds of the model.                                                    *)
(***************************************************************************)
MaxQueue == 5
MaxPriority == 2
MaxDim == 3
MaxCoord == 11

Items == {"a", "b"}
Priorities == 0..MaxPriority

Undefined == "undefined"
NaN == "NaN"
NoValue == "none"

(***************************************************************************)
(* PriorityQueue: heap is the array this.heap; code index i is heap[i+1].  *)
(***************************************************************************)
\* Once(v, Op) is Op(v) with v evaluated a single time: the heap, and the
\* live structures of a search, are values the code holds, not expressions
\* it recomputes at every use.
Once(v, Op(_)) == CHOOSE r \in {Op(x) : x \in {v}} : TRUE

bubbleUpOnce(h0, index) ==
  LET Body(h) ==
        IF index > 0
        THEN LET parentIdx == ((index + 1) \div 2) - 1
                 parent == h[parentIdx + 1]
                 element == h[index + 1]
             IN IF element.priority >= parent.priority
                THEN h
                ELSE [h EXCEPT ![parentIdx + 1] = element, ![index + 1] = parent]
        ELSE h
  IN Once(h0, Body)

RECURSIVE bubbleUp(_, _)
bubbleUp(h0, index) ==
  LET Body(h) ==
        IF index > 0
        THEN LET parentIdx == ((index + 1) \div 2) - 1
                 parent == h[parentIdx + 1]
                 element == h[index + 1]
             IN IF element.priority >= parent.priority
                THEN h
                ELSE bubbleUp([h EXCEPT ![parentIdx + 1] = element,
                                        ![index + 1] = parent], parentIdx)
        ELSE h
  IN Once(h0, Body)

RECURSIVE sinkDownLeftOnly(_, _)
sinkDownLeftOnly(h0, index) ==
  LET Body(h) ==
        LET length == Len(h)
            element == h[index + 1]
            leftChildIdx == 2 * (index + 1) - 1
            swap == IF leftChildIdx < length
                       /\ h[leftChildIdx + 1].priority < element.priority
                    THEN leftChildIdx ELSE -1
        IN IF swap = -1
           THEN h
           ELSE sinkDownLeftOnly([h EXCEPT ![index + 1] = h[swap + 1],
                                           ![swap + 1] = element], swap)
  IN Once(h0, Body)

\* swap = -1 stands for `swap === null`.
RECURSIVE sinkDown(_, _)
sinkDown(h0, index) ==
  LET Body(h) ==
        LET length == Len(h)
            element == h[index + 1]
            leftChildIdx == 2 * (index + 1) - 1
            rightChildIdx == 2 * (index + 1)
            swapL == IF leftChildIdx < length
                        /\ h[leftChildIdx + 1].priority < element.priority
                     THEN leftChildIdx ELSE -1
            swap == IF rightChildIdx < length
                       /\ \/ swapL = -1
                             /\ h[rightChildIdx + 1].priority < element.priority
                          \/ swapL # -1
                             /\ h[rightChildIdx + 1].priority
                                  < h[leftChildIdx + 1].priority
                    THEN rightChildIdx ELSE swapL
        IN IF swap = -1
           THEN h
           ELSE sinkDown([h EXCEPT ![index + 1] = h[swap + 1],
                                   ![swap + 1] = element], swap)
  IN Once(h0, Body)

isEmpty(h) == Len(h) = 0

enqueue(h0, item, priority) ==
  LET node == [item |-> item, priority |-> priority]
      Body(h) == bubbleUp(Append(h, node), Len(h) + 1 - 1)
  IN Once(h0, Body)

dequeueNoRestore(h0) ==
  LET Body(h) ==
        IF isEmpty(h)
        THEN [result |-> Undefined, heap |-> h]
        ELSE [result |-> h[1].item, heap |-> SubSeq(h, 1, Len(h) - 1)]
  IN Once(h0, Body)

dequeueNoGuard(h0) ==
  LET Body(h) ==
        IF isEmpty(h)
        THEN [result |-> "TypeError", heap |-> h]
        ELSE LET end == h[Len(h)]
                 popped == SubSeq(h, 1, Len(h) - 1)
             IN [result |-> h[1].item,
                 heap |-> IF Len(popped) > 0
                          THEN sinkDown([popped EXCEPT ![1] = end], 0)
                          ELSE popped]
  IN Once(h0, Body)

dequeueLast(h0) ==
  LET Body(h) ==
        IF isEmpty(h)
        THEN [result |-> Undefined, heap |-> h]
        ELSE [result |-> h[Len(h)].item, heap |-> SubSeq(h, 1, Len(h) - 1)]
  IN Once(h0, Body)

\* dequeue gives the returned value and the heap it leaves behind.
dequeue(h0) ==
  LET Body(h) ==
        IF isEmpty(h)
        THEN [result |-> Undefined, heap |-> h]
        ELSE LET min == h[1]
                 end == h[Len(h)]
                 popped == SubSeq(h, 1, Len(h) - 1)
             IN [result |-> min.item,
                 heap |-> IF Len(popped) > 0
                          THEN sinkDown([popped EXCEPT ![1] = end], 0)
                          ELSE popped]
  IN Once(h0, Body)

(***************************************************************************)
(* types.ts                                                                *)
(***************************************************************************)
DIRECTIONS ==
  << [row |-> -1, col |-> 0],
     [row |-> 1, col |-> 0],
     [row |-> 0, col |-> -1],
     [row |-> 0, col |-> 1] >>

(***************************************************************************)
(* Keys are strings, modelled as sequences of one-character strings.       *)
(* NumToStr is the decimal text a template literal gives a number, Number  *)
(* is the parse of such a text, Split is String.prototype.split(',').      *)
(***************************************************************************)
Digits == <<"0", "1", "2", "3", "4", "5", "6", "7", "8", "9">>

NatToStrOneDigit(n) == <<Digits[(n % 10) + 1]>>

RECURSIVE NatToStr(_)
NatToStr(n) ==
  IF n < 10 THEN <<Digits[n + 1]>>
  ELSE NatToStr(n \div 10) \o <<Digits[(n % 10) + 1]>>

NumToStr(n) == IF n < 0 THEN <<"-">> \o NatToStr(-n) ELSE NatToStr(n)

DigitVal(ch) == CHOOSE d \in 0..9 : Digits[d + 1] = ch

IsDigits(t) == Len(t) > 0 /\ \A i \in 1..Len(t) : \E d \in 0..9 : Digits[d + 1] = t[i]

RECURSIVE ParseNat(_, _)
ParseNat(t, acc) ==
  IF t = <<>> THEN acc ELSE ParseNat(Tail(t), 10 * acc + DigitVal(Head(t)))

Number(t) ==
  IF t = <<>> THEN 0
  ELSE IF IsDigits(t) THEN ParseNat(t, 0)
  ELSE IF Head(t) = "-" /\ IsDigits(Tail(t)) THEN 0 - ParseNat(Tail(t), 0)
  ELSE NaN

RECURSIVE Split(_, _, _)
Split(s, cur, parts) ==
  IF s = <<>> THEN Append(parts, cur)
  ELSE IF Head(s) = "," THEN Split(Tail(s), <<>>, Append(parts, cur))
  ELSE Split(Tail(s), Append(cur, Head(s)), parts)

coordToString(c) == NumToStr(c.row) \o <<",">> \o NumToStr(c.col)

stringToCoord(s) ==
  LET parts == Split(s, <<>>, <<>>)
  IN [row |-> Number(parts[1]),
      col |-> IF Len(parts) >= 2 THEN Number(parts[2]) ELSE Undefined]

isValidStrict(c, d) ==
  c.row > 0 /\ c.row < d.rows /\ c.col >= 0 /\ c.col < d.cols

isValidInclusive(c, d) ==
  c.row >= 0 /\ c.row <= d.rows /\ c.col >= 0 /\ c.col <= d.cols

isValid(c, d) ==
  c.row >= 0 /\ c.row < d.rows /\ c.col >= 0 /\ c.col < d.cols

RECURSIVE reconstructFromPush(_, _, _)
reconstructFromPush(pm, curr, path) ==
  LET pushed == Append(path, stringToCoord(curr))
  IN IF curr \in DOMAIN pm
     THEN reconstructFromPush(pm, pm[curr], pushed)
     ELSE pushed

RECURSIVE reconstructFromSkipRoot(_, _, _)
reconstructFromSkipRoot(pm, curr, path) ==
  IF curr \in DOMAIN pm
  THEN reconstructFromSkipRoot(pm, pm[curr], <<stringToCoord(curr)>> \o path)
  ELSE path

\* parentMap is a function on the keys that have an entry (Map.get gives
\* undefined, which ends the loop, on any other key).
RECURSIVE reconstructFrom(_, _, _)
reconstructFrom(pm, curr, path) ==
  LET unshifted == <<stringToCoord(curr)>> \o path
  IN IF curr \in DOMAIN pm
     THEN reconstructFrom(pm, pm[curr], unshifted)
     ELSE unshifted

reconstructPath(pm, end) == reconstructFrom(pm, end, <<>>)

\* A reference to a live structure instead of a copy of it: whoever reads it
\* sees the structure as it is at the time of reading.
Alias == <<"&">>

NewSetAlias(live) == {Alias}

\* `new Set(live)`: a fresh set holding the keys live holds now, detached
\* from every later add() and delete() on live.
NewSet(live) == live

NewMapAlias(live) == [k \in {Alias} |-> 0]

\* `new Map(live)`: a fresh map holding the entries live holds now.
NewMap(live) == live

MapSet(m, k, v) == (k :> v) @@ m

EmptyMap == [k \in {} |-> 0]

(***************************************************************************)
(* Inputs of a run.  Grids of 0..MaxDim rows and columns; start and goal   *)
(* are cells of the grid or one of two coordinates outside it.             *)
(***************************************************************************)
DimsSet == [rows : 0..MaxDim, cols : 0..MaxDim]

\* The grids one row taller than the widest square one: the smallest on which
\* runAStar leaves an out-of-date entry of a key in its queue.
TallDims == [rows : {MaxDim + 1}, cols : {MaxDim}]

Cells(d) == [row : 0..(d.rows - 1), col : 0..(d.cols - 1)]

OutCells(d) == {[row |-> -1, col |-> 0], [row |-> d.rows, col |-> d.cols]}

CoordSet(d) == Cells(d) \cup OutCells(d)

\* The specification's notion of valid input, stated on the grid itself.
ValidInput(d, s, g) ==
  d.rows > 0 /\ d.cols > 0 /\ s \in Cells(d) /\ g \in Cells(d)

Algos == {"BFS", "DFS", "Dijkstra", "AStar"}

(***************************************************************************)
(* State of the search engine.  The four entry points are called one after *)
(* the other on the same (dims, start, goal); pc says which call is next   *)
(* or running and traces keeps what each finished call returned.           *)
(*                                                                         *)
(* A stand-alone PriorityQueue object and its caller:                      *)
(*   heap     this.heap                                                    *)
(*   ret      what the last dequeue() returned                             *)
(*   drained  priorities of the items returned since the last enqueue      *)
(*   contents the pairs enqueued so far less, for each dequeue() that       *)
(*            returned an item, the pair that held it                       *)
(*                                                                         *)
(* Of the runBFS call, besides its locals:                                 *)
(*   pushed   the keys given to queue.push (and the initial [start]), in    *)
(*            order                                                         *)
(*                                                                         *)
(* Of the runBFS, runDijkstra and runAStar calls:                          *)
(*   held     for each steps.push, the keys in the work-list (queue or pq)  *)
(*            at that moment                                                *)
(*                                                                         *)
(* A caller of the key codec:                                              *)
(*   coords   two coordinates                                              *)
(*   keys     their keys, once encoded                                     *)
(*   decoded  the coordinates decoded from the keys                        *)
(*                                                                         *)
(* The state of the App component (useState), with dims for dimensions and *)
(* start for startPos:                                                     *)
(*   gameStatus, selectedAlgo, goalPos, playerPos, algoHistory,            *)
(*   algoStepIndex, algoFinished, winner                                   *)
(***************************************************************************)
VARIABLES heap, ret, drained, contents,
          coords, keys, decoded,
          gameStatus, selectedAlgo, goalPos, playerPos,
          algoHistory, algoStepIndex, algoFinished, winner,
          dims, start, goal, pc, traces,
          steps, held, visited, parentMap, frontier,
          queue, pushed,
          recursionStack, found, frames,
          pq, distances, gScore

pqVars == <<heap, ret, drained, contents>>
codecVars == <<coords, keys, decoded>>
appVars == <<gameStatus, selectedAlgo, goalPos, playerPos,
             algoHistory, algoStepIndex, algoFinished, winner>>
inputVars == <<dims, start, goal>>
bfsVars == <<queue, pushed>>
dfsVars == <<recursionStack, found, frames>>
pqAlgoVars == <<pq, distances, gScore>>
searchVars == <<dims, start, goal, pc, traces, steps, held, visited,
                parentMap,
                frontier, queue, pushed, recursionStack, found, frames,
                pq, distances, gScore>>

vars == <<pqVars, searchVars, codecVars, appVars>>

startStr == coordToString(start)
goalStr == coordToString(goal)

PQInit ==
  /\ heap = <<>>
  /\ ret = NoValue
  /\ drained = <<>>
  /\ contents = EmptyBag

SearchLocalsInit ==
  /\ traces = EmptyMap
  /\ steps = <<>>
  /\ held = <<>>
  /\ visited = {}
  /\ parentMap = EmptyMap
  /\ frontier = {}
  /\ queue = <<>>
  /\ pushed = <<>>
  /\ recursionStack = {}
  /\ found = FALSE
  /\ frames = <<>>
  /\ pq = <<>>
  /\ distances = EmptyMap
  /\ gScore = EmptyMap

\* No search is called while the queue object is exercised on its own.
SearchIdle ==
  /\ dims = [rows |-> 1, cols |-> 1]
  /\ start = [row |-> 0, col |-> 0]
  /\ goal = [row |-> 0, col |-> 0]
  /\ pc = "idle"
  /\ SearchLocalsInit

Enqueue(item, priority) ==
  /\ Len(heap) < MaxQueue
  /\ heap' = enqueue(heap, item, priority)
  /\ ret' = NoValue
  /\ drained' = <<>>
  /\ contents' = contents (+) SetToBag({[item |-> item, priority |-> priority]})
  /\ UNCHANGED <<searchVars, codecVars, appVars>>

Dequeue ==
  /\ heap' = dequeue(heap).heap
  /\ ret' = dequeue(heap).result
  /\ drained' = IF isEmpty(heap) THEN drained
                ELSE Append(drained, heap[1].priority)
  /\ contents' = IF isEmpty(heap) THEN contents
                 ELSE contents (-) SetToBag({heap[1]})
  /\ UNCHANGED <<searchVars, codecVars, appVars>>

PQNext ==
  \/ \E item \in Items, priority \in Priorities : Enqueue(item, priority)
  \/ Dequeue

(***************************************************************************)
(* App: the state after the first render.                                  *)
(***************************************************************************)
Null == "null"

AppIdle ==
  /\ gameStatus = "SETUP"
  /\ selectedAlgo = "BFS"
  /\ goalPos = [row |-> 0, col |-> 0]
  /\ playerPos = [row |-> 0, col |-> 0]
  /\ algoHistory = <<>>
  /\ algoStepIndex = 0
  /\ algoFinished = FALSE
  /\ winner = Null

(***************************************************************************)
(* The key codec on its own: a pair of coordinates is encoded with         *)
(* coordToString and the two keys are decoded with stringToCoord.          *)
(***************************************************************************)
CodecCoords == [row : 0..MaxCoord, col : 0..MaxCoord]

CodecIdle ==
  /\ coords = <<[row |-> 0, col |-> 0], [row |-> 0, col |-> 0]>>
  /\ keys = <<>>
  /\ decoded = <<>>

CodecInit ==
  /\ coords \in CodecCoords \X CodecCoords
  /\ keys = <<>>
  /\ decoded = <<>>

Encode ==
  /\ keys = <<>>
  /\ keys' = <<coordToString(coords[1]), coordToString(coords[2])>>
  /\ UNCHANGED <<pqVars, searchVars, appVars, coords, decoded>>

Decode ==
  /\ keys # <<>>
  /\ decoded = <<>>
  /\ decoded' = <<stringToCoord(keys[1]), stringToCoord(keys[2])>>
  /\ UNCHANGED <<pqVars, searchVars, appVars, coords, keys>>

CodecNext == Encode \/ Decode

InitCodec == PQInit /\ SearchIdle /\ CodecInit /\ AppIdle

SpecCodec == InitCodec /\ [][CodecNext]_vars

InitPQ == PQInit /\ SearchIdle /\ CodecIdle /\ AppIdle

SpecPQ == InitPQ /\ [][PQNext]_vars

SearchInit ==
  /\ PQInit
  /\ dims \in DimsSet
  /\ start \in CoordSet(dims)
  /\ goal \in CoordSet(dims)
  /\ pc = "callBFS"
  /\ SearchLocalsInit
  /\ CodecIdle
  /\ AppIdle

\* `return steps`: the caller keeps the trace and goes on to the next call.
Return(algo, result, nextPc) ==
  /\ traces' = MapSet(traces, algo, result)
  /\ pc' = nextPc

(***************************************************************************)
(* runBFS                                                                  *)
(***************************************************************************)
CallBFS ==
  /\ pc = "callBFS"
  /\ steps' = <<>>
  /\ held' = <<>>
  /\ queue' = <<start>>
  /\ pushed' = <<startStr>>
  /\ visited' = {startStr}
  /\ parentMap' = EmptyMap
  /\ frontier' = {startStr}
  /\ pc' = "BFS"
  /\ UNCHANGED <<pqVars, codecVars, appVars,
                 inputVars, traces, dfsVars, pqAlgoVars>>

\* The for loop over DIRECTIONS from direction i on; st holds the live
\* visited, parentMap, frontier and queue.
RECURSIVE BFSNeighboursNoMark(_, _, _)
BFSNeighboursNoMark(st0, current, i) ==
  LET Body(st) ==
        IF i > Len(DIRECTIONS) THEN st
        ELSE LET dir == DIRECTIONS[i]
                 next == [row |-> current.row + dir.row,
                          col |-> current.col + dir.col]
                 nextStr == coordToString(next)
                 currStr == coordToString(current)
             IN IF isValid(next, dims) /\ nextStr \notin st.frontier
                THEN BFSNeighboursNoMark(
                       [visited |-> st.visited,
                        parentMap |-> MapSet(st.parentMap, nextStr, currStr),
                        frontier |-> st.frontier \cup {nextStr},
                        queue |-> Append(st.queue, next)],
                       current, i + 1)
                ELSE BFSNeighboursNoMark(st, current, i + 1)
  IN Once(st0, Body)

RECURSIVE BFSNeighboursMoveMark(_, _, _)
BFSNeighboursMoveMark(st0, current, i) ==
  LET Body(st) ==
        IF i > Len(DIRECTIONS) THEN st
        ELSE LET dir == DIRECTIONS[i]
                 next == [row |-> current.row + dir.row,
                          col |-> current.col + dir.col]
                 nextStr == coordToString(next)
                 currStr == coordToString(current)
             IN IF isValid(next, dims) /\ nextStr \notin st.visited
                      /\ nextStr \notin DOMAIN st.parentMap
                THEN BFSNeighboursMoveMark(
                       [visited |-> (st.visited \ {currStr}) \cup {nextStr},
                        parentMap |-> MapSet(st.parentMap, nextStr, currStr),
                        frontier |-> st.frontier \cup {nextStr},
                        queue |-> Append(st.queue, next)],
                       current, i + 1)
                ELSE BFSNeighboursMoveMark(st, current, i + 1)
  IN Once(st0, Body)

RECURSIVE BFSNeighbours(_, _, _)
BFSNeighbours(st0, current, i) ==
  LET Body(st) ==
        IF i > Len(DIRECTIONS) THEN st
        ELSE LET dir == DIRECTIONS[i]
                 next == [row |-> current.row + dir.row,
                          col |-> current.col + dir.col]
                 nextStr == coordToString(next)
                 currStr == coordToString(current)
             IN IF isValid(next, dims) /\ nextStr \notin st.visited
                THEN BFSNeighbours(
                       [visited |-> st.visited \cup {nextStr},
                        parentMap |-> MapSet(st.parentMap, nextStr, currStr),
                        frontier |-> st.frontier \cup {nextStr},
                        queue |-> Append(st.queue, next)],
                       current, i + 1)
                ELSE BFSNeighbours(st, current, i + 1)
  IN Once(st0, Body)

\* The keys of the coordinates in the FIFO work-list q.
KeysOfQueue(q) == {coordToString(q[i]) : i \in 1..Len(q)}

\* One iteration of `while (queue.length > 0)`.
BFSLoop ==
  /\ pc = "BFS"
  /\ Len(queue) > 0
  /\ LET current == Head(queue)
         currStr == coordToString(current)
         shifted == Tail(queue)
         front == frontier \ {currStr}
         snapshot == [visited |-> NewSet(visited), frontier |-> NewSet(front), current |-> current]
     IN IF currStr = goalStr
        THEN LET path == reconstructPath(parentMap, goalStr)
                 result == steps \o <<snapshot,
                                      [visited |-> NewSet(visited), frontier |-> NewSet(front),
                                       path |-> path]>>
             IN /\ steps' = result
                /\ held' = held \o <<KeysOfQueue(shifted), KeysOfQueue(shifted)>>
                /\ queue' = shifted
                /\ frontier' = front
                /\ Return("BFS", result, "callDFS")
                /\ UNCHANGED <<visited, parentMap, pushed>>
        ELSE \E st \in {BFSNeighbours([visited |-> visited, parentMap |-> parentMap,
                                       frontier |-> front, queue |-> shifted],
                                      current, 1)} :
                /\ steps' = Append(steps, snapshot)
                /\ held' = Append(held, KeysOfQueue(shifted))
                /\ visited' = st.visited
                /\ parentMap' = st.parentMap
                /\ frontier' = st.frontier
                /\ queue' = st.queue
                /\ pushed' = pushed \o
                     [k \in 1..(Len(st.queue) - Len(shifted)) |->
                        coordToString(st.queue[Len(shifted) + k])]
                /\ UNCHANGED <<pc, traces>>
  /\ UNCHANGED <<pqVars, codecVars, appVars, inputVars, dfsVars, pqAlgoVars>>

\* The loop ends with the work-list empty: `return steps`.
BFSExit ==
  /\ pc = "BFS"
  /\ Len(queue) = 0
  /\ Return("BFS", steps, "callDFS")
  /\ UNCHANGED <<pqVars, codecVars, appVars, inputVars, held,
                 steps, visited, parentMap, frontier, queue, pushed,
                 dfsVars, pqAlgoVars>>

(***************************************************************************)
(* runDFSRecursive.  frames is the call stack of dfs, innermost call last: *)
(* current and depth are the arguments, i is the position in the call      *)
(* (0: body not yet entered, 1..4: at the top of the for loop with that    *)
(* direction next, 5: past the loop).                                      *)
(***************************************************************************)
CallDFS ==
  /\ pc = "callDFS"
  /\ steps' = <<>>
  /\ held' = <<>>
  /\ visited' = {}
  /\ parentMap' = EmptyMap
  /\ recursionStack' = {}
  /\ found' = FALSE
  /\ frames' = <<[current |-> start, depth |-> 0, i |-> 0]>>
  /\ pc' = "DFS"
  /\ UNCHANGED <<pqVars, codecVars, appVars, inputVars,
                 traces, frontier, bfsVars, pqAlgoVars>>

Top == frames[Len(frames)]

Popped == SubSeq(frames, 1, Len(frames) - 1)

\* dfs from its first line to the goal test.
DFSEnter ==
  /\ pc = "DFS"
  /\ Len(frames) > 0
  /\ Top.i = 0
  /\ IF found
     THEN /\ frames' = Popped
          /\ UNCHANGED <<steps, visited, recursionStack, found>>
     ELSE LET current == Top.current
              currStr == coordToString(current)
              vis == visited \cup {currStr}
              stk == recursionStack \cup {currStr}
              snapshot == [visited |-> NewSet(vis), frontier |-> NewSet(stk),
                           current |-> current, depth |-> Top.depth]
          IN /\ visited' = vis
             /\ recursionStack' = stk
             /\ IF currStr = goalStr
                THEN /\ found' = TRUE
                     /\ steps' = steps \o
                          <<snapshot,
                            [visited |-> NewSet(vis), frontier |-> NewSet(stk),
                             path |-> reconstructPath(parentMap, goalStr)]>>
                     /\ frames' = Popped
                ELSE /\ steps' = Append(steps, snapshot)
                     /\ frames' = [frames EXCEPT ![Len(frames)].i = 1]
                     /\ UNCHANGED found
  /\ UNCHANGED <<pqVars, codecVars, appVars, inputVars, held,
                 pc, traces, parentMap, frontier, bfsVars,
                 pqAlgoVars>>

DFSVisitNoFoundCheck ==
  /\ pc = "DFS"
  /\ Len(frames) > 0
  /\ Top.i \in 1..Len(DIRECTIONS)
  /\ IF FALSE
     THEN /\ frames' = Popped
          /\ UNCHANGED parentMap
     ELSE LET current == Top.current
              dir == DIRECTIONS[Top.i]
              next == [row |-> current.row + dir.row,
                       col |-> current.col + dir.col]
              nextStr == coordToString(next)
              advanced == [frames EXCEPT ![Len(frames)].i = Top.i + 1]
          IN IF isValid(next, dims) /\ nextStr \notin visited
             THEN /\ parentMap' = MapSet(parentMap, nextStr, coordToString(current))
                  /\ frames' = Append(advanced,
                                      [current |-> next, depth |-> Top.depth + 1,
                                       i |-> 0])
             ELSE /\ frames' = advanced
                  /\ UNCHANGED parentMap
  /\ UNCHANGED <<pqVars, codecVars, appVars, inputVars, held,
                 pc, traces, steps, visited, frontier,
                 bfsVars, recursionStack, found, pqAlgoVars>>

\* One iteration of the for loop of the innermost call.
DFSVisit ==
  /\ pc = "DFS"
  /\ Len(frames) > 0
  /\ Top.i \in 1..Len(DIRECTIONS)
  /\ IF found
     THEN /\ frames' = Popped
          /\ UNCHANGED parentMap
     ELSE LET current == Top.current
              dir == DIRECTIONS[Top.i]
              next == [row |-> current.row + dir.row,
                       col |-> current.col + dir.col]
              nextStr == coordToString(next)
              advanced == [frames EXCEPT ![Len(frames)].i = Top.i + 1]
          IN IF isValid(next, dims) /\ nextStr \notin visited
             THEN /\ parentMap' = MapSet(parentMap, nextStr, coordToString(current))
                  /\ frames' = Append(advanced,
                                      [current |-> next, depth |-> Top.depth + 1,
                                       i |-> 0])
             ELSE /\ frames' = advanced
                  /\ UNCHANGED parentMap
  /\ UNCHANGED <<pqVars, codecVars, appVars, inputVars, held,
                 pc, traces, steps, visited, frontier,
                 bfsVars, recursionStack, found, pqAlgoVars>>

DFSBacktrackSameDepth ==
  /\ pc = "DFS"
  /\ Len(frames) > 0
  /\ Top.i = Len(DIRECTIONS) + 1
  /\ LET currStr == coordToString(Top.current)
         stk == recursionStack \ {currStr}
     IN /\ recursionStack' = stk
        /\ steps' = Append(steps, [visited |-> NewSet(visited), frontier |-> NewSet(stk),
                                   current |-> Top.current,
                                   depth |-> Top.depth])
  /\ frames' = Popped
  /\ UNCHANGED <<pqVars, codecVars, appVars, inputVars, held,
                 pc, traces, visited, parentMap, frontier,
                 bfsVars, found, pqAlgoVars>>

\* Past the loop: the backtracking snapshot, then the call returns.
DFSBacktrack ==
  /\ pc = "DFS"
  /\ Len(frames) > 0
  /\ Top.i = Len(DIRECTIONS) + 1
  /\ LET currStr == coordToString(Top.current)
         stk == recursionStack \ {currStr}
     IN /\ recursionStack' = stk
        /\ steps' = Append(steps, [visited |-> NewSet(visited), frontier |-> NewSet(stk),
                                   current |-> Top.current,
                                   depth |-> Top.depth - 1])
  /\ frames' = Popped
  /\ UNCHANGED <<pqVars, codecVars, appVars, inputVars, held,
                 pc, traces, visited, parentMap, frontier,
                 bfsVars, found, pqAlgoVars>>

\* dfs(start, 0) has returned: `return steps`.
DFSExit ==
  /\ pc = "DFS"
  /\ Len(frames) = 0
  /\ Return("DFS", steps, "callDijkstra")
  /\ UNCHANGED <<pqVars, codecVars, appVars, inputVars, held,
                 steps, visited, parentMap, frontier,
                 bfsVars, dfsVars, pqAlgoVars>>

(***************************************************************************)
(* runDijkstra                                                             *)
(***************************************************************************)
CallDijkstra ==
  /\ pc = "callDijkstra"
  /\ steps' = <<>>
  /\ held' = <<>>
  /\ pq' = enqueue(<<>>, startStr, 0)
  /\ distances' = MapSet(EmptyMap, startStr, 0)
  /\ parentMap' = EmptyMap
  /\ visited' = {}
  /\ frontier' = {startStr}
  /\ pc' = "Dijkstra"
  /\ UNCHANGED <<pqVars, codecVars, appVars, inputVars,
                 traces, bfsVars, dfsVars, gScore>>

GetOrZeroAlways(m, k) == 0

\* `m.get(k) || 0`
GetOrZero(m, k) == IF k \in DOMAIN m THEN m[k] ELSE 0

LessOrEqualKnown(v, m, k) == IF k \in DOMAIN m THEN v <= m[k] ELSE TRUE

AlwaysRelax(v, m, k) == TRUE

\* `v < (m.get(k) ?? Infinity)`
LessThanKnown(v, m, k) == IF k \in DOMAIN m THEN v < m[k] ELSE TRUE

RECURSIVE DijkstraNeighbours(_, _, _)
DijkstraNeighbours(st0, current, i) ==
  LET Body(st) ==
        IF i > Len(DIRECTIONS) THEN st
        ELSE LET dir == DIRECTIONS[i]
                 next == [row |-> current.row + dir.row,
                          col |-> current.col + dir.col]
                 nextStr == coordToString(next)
                 currStr == coordToString(current)
                 newDist == GetOrZero(st.distances, currStr) + 1
             IN IF isValid(next, dims)
                   /\ LessThanKnown(newDist, st.distances, nextStr)
                THEN DijkstraNeighbours(
                       [distances |-> MapSet(st.distances, nextStr, newDist),
                        parentMap |-> MapSet(st.parentMap, nextStr, currStr),
                        pq |-> enqueue(st.pq, nextStr, newDist),
                        frontier |-> st.frontier \cup {nextStr}],
                       current, i + 1)
                ELSE DijkstraNeighbours(st, current, i + 1)
  IN Once(st0, Body)

\* The distinct items in the heap array h.
KeysOfHeap(h) == {h[i].item : i \in 1..Len(h)}

\* One iteration of `while (!pq.isEmpty())`.
DijkstraLoop ==
  /\ pc = "Dijkstra"
  /\ ~isEmpty(pq)
  /\ \E popped \in {dequeue(pq)} :
       LET currStr == popped.result
           current == stringToCoord(currStr)
           front == frontier \ {currStr}
           vis == visited \cup {currStr}
           snapshot == [visited |-> NewSet(vis), frontier |-> NewSet(front),
                        current |-> current, costMap |-> NewMap(distances)]
       IN /\ visited' = vis
          /\ IF currStr = goalStr
             THEN LET path == reconstructPath(parentMap, goalStr)
                      result == steps \o
                                  <<snapshot,
                                    [visited |-> NewSet(vis), frontier |-> NewSet(front),
                                     path |-> path, costMap |-> NewMap(distances)]>>
                  IN /\ steps' = result
                     /\ held' = held \o <<KeysOfHeap(popped.heap),
                                         KeysOfHeap(popped.heap)>>
                     /\ pq' = popped.heap
                     /\ frontier' = front
                     /\ Return("Dijkstra", result, "callAStar")
                     /\ UNCHANGED <<distances, parentMap>>
             ELSE \E st \in {DijkstraNeighbours(
                               [distances |-> distances, parentMap |-> parentMap,
                                pq |-> popped.heap, frontier |-> front],
                               current, 1)} :
                     /\ steps' = Append(steps, snapshot)
                     /\ held' = Append(held, KeysOfHeap(popped.heap))
                     /\ distances' = st.distances
                     /\ parentMap' = st.parentMap
                     /\ pq' = st.pq
                     /\ frontier' = st.frontier
                     /\ UNCHANGED <<pc, traces>>
  /\ UNCHANGED <<pqVars, codecVars, appVars,
                 inputVars, bfsVars, dfsVars, gScore>>

DijkstraExit ==
  /\ pc = "Dijkstra"
  /\ isEmpty(pq)
  /\ Return("Dijkstra", steps, "callAStar")
  /\ UNCHANGED <<pqVars, codecVars, appVars, inputVars, held,
                 steps, visited, parentMap, frontier,
                 bfsVars, dfsVars, pqAlgoVars>>

(***************************************************************************)
(* runAStar                                                                *)
(***************************************************************************)
Abs(x) == IF x < 0 THEN 0 - x ELSE x

heuristicNoAbs(a, b) == (a.row - b.row) + (a.col - b.col)

heuristic(a, b) == Abs(a.row - b.row) + Abs(a.col - b.col)

CallAStar ==
  /\ pc = "callAStar"
  /\ steps' = <<>>
  /\ held' = <<>>
  /\ pq' = enqueue(<<>>, startStr, 0)
  /\ gScore' = MapSet(EmptyMap, startStr, 0)
  /\ parentMap' = EmptyMap
  /\ visited' = {}
  /\ frontier' = {startStr}
  /\ pc' = "AStar"
  /\ UNCHANGED <<pqVars, codecVars, appVars, inputVars,
                 traces, bfsVars, dfsVars, distances>>

RECURSIVE AStarNeighbours(_, _, _)
AStarNeighbours(st0, current, i) ==
  LET Body(st) ==
        IF i > Len(DIRECTIONS) THEN st
        ELSE LET dir == DIRECTIONS[i]
                 next == [row |-> current.row + dir.row,
                          col |-> current.col + dir.col]
                 nextStr == coordToString(next)
                 currStr == coordToString(current)
                 tentativeG == GetOrZero(st.gScore, currStr) + 1
                 fScore == tentativeG + heuristic(next, goal)
             IN IF isValid(next, dims)
                   /\ LessThanKnown(tentativeG, st.gScore, nextStr)
                THEN AStarNeighbours(
                       [parentMap |-> MapSet(st.parentMap, nextStr, currStr),
                        gScore |-> MapSet(st.gScore, nextStr, tentativeG),
                        pq |-> enqueue(st.pq, nextStr, fScore),
                        frontier |-> st.frontier \cup {nextStr}],
                       current, i + 1)
                ELSE AStarNeighbours(st, current, i + 1)
  IN Once(st0, Body)

AStarLoop ==
  /\ pc = "AStar"
  /\ ~isEmpty(pq)
  /\ \E popped \in {dequeue(pq)} :
       LET currStr == popped.result
           current == stringToCoord(currStr)
           front == frontier \ {currStr}
           vis == visited \cup {currStr}
           snapshot == [visited |-> NewSet(vis), frontier |-> NewSet(front),
                        current |-> current, costMap |-> NewMap(gScore)]
       IN /\ visited' = vis
          /\ IF currStr = goalStr
             THEN LET path == reconstructPath(parentMap, goalStr)
                      result == steps \o
                                  <<snapshot,
                                    [visited |-> NewSet(vis), frontier |-> NewSet(front),
                                     path |-> path, costMap |-> NewMap(gScore)]>>
                  IN /\ steps' = result
                     /\ held' = held \o <<KeysOfHeap(popped.heap),
                                         KeysOfHeap(popped.heap)>>
                     /\ pq' = popped.heap
                     /\ frontier' = front
                     /\ Return("AStar", result, "done")
                     /\ UNCHANGED <<gScore, parentMap>>
             ELSE \E st \in {AStarNeighbours(
                               [parentMap |-> parentMap, gScore |-> gScore,
                                pq |-> popped.heap, frontier |-> front],
                               current, 1)} :
                     /\ steps' = Append(steps, snapshot)
                     /\ held' = Append(held, KeysOfHeap(popped.heap))
                     /\ gScore' = st.gScore
                     /\ parentMap' = st.parentMap
                     /\ pq' = st.pq
                     /\ frontier' = st.frontier
                     /\ UNCHANGED <<pc, traces>>
  /\ UNCHANGED <<pqVars, codecVars, appVars,
                 inputVars, bfsVars, dfsVars, distances>>

AStarExit ==
  /\ pc = "AStar"
  /\ isEmpty(pq)
  /\ Return("AStar", steps, "done")
  /\ UNCHANGED <<pqVars, codecVars, appVars, inputVars, held,
                 steps, visited, parentMap, frontier,
                 bfsVars, dfsVars, pqAlgoVars>>

SearchNext ==
  \/ CallBFS
  \/ BFSLoop
  \/ BFSExit
  \/ CallDFS
  \/ DFSEnter
  \/ DFSVisit
  \/ DFSBacktrack
  \/ DFSExit
  \/ CallDijkstra
  \/ DijkstraLoop
  \/ DijkstraExit
  \/ CallAStar
  \/ AStarLoop
  \/ AStarExit

SpecSearch == SearchInit /\ [][SearchNext]_vars

\* The same calls, on the taller grids as well.
SearchInitTall ==
  /\ PQInit
  /\ dims \in DimsSet \cup TallDims
  /\ start \in CoordSet(dims)
  /\ goal \in CoordSet(dims)
  /\ pc = "callBFS"
  /\ SearchLocalsInit
  /\ CodecIdle
  /\ AppIdle

SpecSearchTall == SearchInitTall /\ [][SearchNext]_vars

\* Every call runs to completion: the engine is synchronous and a started
\* loop iteration is always followed by the next one.
SpecSearchLive == SpecSearch /\ WF_vars(SearchNext)

(***************************************************************************)
(* App.tsx: the replay of a trace against the player.                      *)
(*                                                                         *)
(* The grid is the one chosen in the settings panel.  The random goal of   *)
(* generateGoal and the traces the engine returns for it are drawn and     *)
(* computed ahead (goal, traces); startGame then takes the trace of the    *)
(* selected algorithm, and its batched state updates are one step.         *)
(***************************************************************************)
INITIAL_START == [row |-> 0, col |-> 0]

AppInit ==
  /\ PQInit
  /\ dims \in {d \in DimsSet : d.rows * d.cols >= 2}
  /\ start = INITIAL_START
  /\ goal \in Cells(dims) \ {start}
  /\ pc = "callBFS"
  /\ SearchLocalsInit
  /\ CodecIdle
  /\ AppIdle

\* The engine has returned the four traces for (dims, start, goal).
Precomputed == pc = "done"

\* onClick={() => setSelectedAlgo(algo)} in the settings panel.
SetSelectedAlgo(algo) ==
  /\ Precomputed
  /\ gameStatus = "SETUP"
  /\ selectedAlgo' = algo
  /\ UNCHANGED <<pqVars, searchVars, codecVars, gameStatus, goalPos,
                 playerPos, algoHistory, algoStepIndex, algoFinished, winner>>

\* startGame, from the Start button (SETUP) or Play Again (FINISHED).
StartGame ==
  /\ Precomputed
  /\ gameStatus \in {"SETUP", "FINISHED"}
  /\ goalPos' = goal
  /\ playerPos' = start
  /\ winner' = Null
  /\ algoFinished' = FALSE
  /\ algoHistory' = traces[selectedAlgo]
  /\ algoStepIndex' = 0
  /\ gameStatus' = "PLAYING"
  /\ UNCHANGED <<pqVars, searchVars, codecVars, selectedAlgo>>

\* The callback of the algorithm interval, which runs while PLAYING.
Tick ==
  /\ gameStatus = "PLAYING"
  /\ IF algoStepIndex < Len(algoHistory) - 1
     THEN /\ algoStepIndex' = algoStepIndex + 1
          /\ UNCHANGED algoFinished
     ELSE /\ algoFinished' = TRUE
          /\ UNCHANGED algoStepIndex
  /\ UNCHANGED <<pqVars, searchVars, codecVars, gameStatus, selectedAlgo,
                 goalPos, playerPos, algoHistory, winner>>

isPlayerAtGoal == playerPos = goalPos

isAlgoAtGoal ==
  Len(algoHistory) > 0 /\ algoStepIndex >= Len(algoHistory) - 1

CheckWinAlgoEnds ==
  /\ gameStatus = "PLAYING"
  /\ IF isPlayerAtGoal \/ isAlgoAtGoal
     THEN /\ gameStatus' = "FINISHED"
          /\ winner' = IF isAlgoAtGoal THEN "ALGORITHM" ELSE "PLAYER"
          /\ algoFinished' = (algoFinished \/ isAlgoAtGoal)
     ELSE UNCHANGED <<gameStatus, winner, algoFinished>>
  /\ UNCHANGED <<pqVars, searchVars, codecVars, selectedAlgo, goalPos,
                 playerPos, algoHistory, algoStepIndex>>

\* The effect that calls checkWin(false) while PLAYING.
CheckWin ==
  /\ gameStatus = "PLAYING"
  /\ IF isPlayerAtGoal
     THEN /\ gameStatus' = "FINISHED"
          /\ winner' = IF isAlgoAtGoal /\ algoFinished
                       THEN "ALGORITHM" ELSE "PLAYER"
          /\ UNCHANGED algoFinished
     ELSE IF isAlgoAtGoal /\ ~algoFinished
          THEN /\ algoFinished' = TRUE
               /\ UNCHANGED <<gameStatus, winner>>
          ELSE UNCHANGED <<gameStatus, winner, algoFinished>>
  /\ UNCHANGED <<pqVars, searchVars, codecVars, selectedAlgo, goalPos,
                 playerPos, algoHistory, algoStepIndex>>

\* handleKeyDown for an arrow or w/s/a/d key; other keys return at once.
KeyDown(dir) ==
  /\ gameStatus = "PLAYING"
  /\ LET newR == playerPos.row + dir.row
         newC == playerPos.col + dir.col
     IN IF newR >= 0 /\ newR < dims.rows /\ newC >= 0 /\ newC < dims.cols
        THEN /\ playerPos' = [row |-> newR, col |-> newC]
             /\ IF newR = goalPos.row /\ newC = goalPos.col
                THEN /\ winner' = IF algoFinished THEN "ALGORITHM"
                                  ELSE "PLAYER"
                     /\ gameStatus' = "FINISHED"
                ELSE UNCHANGED <<winner, gameStatus>>
        ELSE UNCHANGED <<playerPos, winner, gameStatus>>
  /\ UNCHANGED <<pqVars, searchVars, codecVars, selectedAlgo, goalPos,
                 algoHistory, algoStepIndex, algoFinished>>

\* The Reset and Change Settings buttons.
Reset ==
  /\ gameStatus \in {"PLAYING", "FINISHED"}
  /\ gameStatus' = "SETUP"
  /\ UNCHANGED <<pqVars, searchVars, codecVars, selectedAlgo, goalPos,
                 playerPos, algoHistory, algoStepIndex, algoFinished, winner>>

\* generateGoal returns a cell of the grid, which every search reaches: the
\* loops of runBFS, runDijkstra and runAStar return from inside.
AppNext ==
  \/ CallBFS
  \/ BFSLoop
  \/ CallDFS
  \/ DFSEnter
  \/ DFSVisit
  \/ DFSBacktrack
  \/ DFSExit
  \/ CallDijkstra
  \/ DijkstraLoop
  \/ CallAStar
  \/ AStarLoop
  \/ \E algo \in Algos : SetSelectedAlgo(algo)
  \/ StartGame
  \/ Tick
  \/ CheckWin
  \/ \E i \in 1..Len(DIRECTIONS) : KeyDown(DIRECTIONS[i])
  \/ Reset

SpecApp == AppInit /\ [][AppNext]_vars

(***************************************************************************)
(* Vocabulary of the properties.                                           *)
(***************************************************************************)
HasPath(s) == "path" \in DOMAIN s

HasCurrent(s) == "current" \in DOMAIN s

Returned(a) == a \in DOMAIN traces

PathIndices(t) == {i \in 1..Len(t) : HasPath(t[i])}

EndsWithPath(t) == Len(t) > 0 /\ HasPath(t[Len(t)])

Valid == ValidInput(dims, start, goal)

Manhattan == Abs(start.row - goal.row) + Abs(start.col - goal.col)

OrthogonalStep(a, b) ==
  \/ a.col = b.col /\ Abs(a.row - b.row) = 1
  \/ a.row = b.row /\ Abs(a.col - b.col) = 1

WellFormedPath(path) ==
  /\ Len(path) > 0
  /\ path[1] = start
  /\ path[Len(path)] = goal
  /\ \A i \in 1..(Len(path) - 1) : OrthogonalStep(path[i], path[i + 1])

NonDecreasing(q) == \A i \in 1..(Len(q) - 1) : q[i] <= q[i + 1]

ParentIdx(i) == ((i + 1) \div 2) - 1

(***************************************************************************)
(* C1  PriorityQueue: the priorities of the items returned by the dequeues *)
(* that follow the last enqueue, down to the empty queue, form a           *)
(* non-decreasing sequence.                                                *)
(***************************************************************************)
C1_DequeueOrder == NonDecreasing(drained)

C1_Witness ==
  /\ isEmpty(heap)
  /\ Len(drained) >= 5
  /\ drained[1] < drained[3]
  /\ drained[3] < drained[5]

(***************************************************************************)
(* C2  PriorityQueue: after every enqueue or dequeue, in any interleaving, *)
(* every heap element's priority is >= that of its parent at index         *)
(* floor((i+1)/2)-1, and heap[0] holds a minimal priority among all items  *)
(* in the queue.                                                           *)
(***************************************************************************)
C2_HeapInvariant ==
  /\ \A i \in 1..(Len(heap) - 1) :
       heap[i + 1].priority >= heap[ParentIdx(i) + 1].priority
  /\ \A j \in 1..Len(heap) : heap[1].priority <= heap[j].priority

C2_Witness ==
  /\ Len(heap) >= 4
  /\ ret \in Items
  /\ heap[1].priority < heap[2].priority
  /\ heap[2].priority < heap[4].priority

(***************************************************************************)
(* C3  On valid input every path carried by a snapshot, of any of the four *)
(* algorithms, begins at start, ends at goal and moves by one orthogonal   *)
(* step between consecutive coordinates.                                   *)
(***************************************************************************)
C3_PathWellFormed ==
  Valid => \A i \in 1..Len(steps) :
             HasPath(steps[i]) => WellFormedPath(steps[i].path)

C3_Witness ==
  /\ pc = "done"
  /\ Valid
  /\ \A a \in Algos : /\ EndsWithPath(traces[a]) \/ a = "DFS"
                      /\ \E i \in PathIndices(traces[a]) :
                           Len(traces[a][i].path) >= 4
  /\ Len(traces["DFS"][CHOOSE i \in PathIndices(traces["DFS"]) : TRUE].path)
       > Manhattan + 1

(***************************************************************************)
(* C4  On valid input runBFS and runDijkstra return paths with the same    *)
(* number of coordinates, the Manhattan distance between start and goal    *)
(* plus one.                                                               *)
(***************************************************************************)
C4_ShortestPathLength ==
  (Valid /\ Returned("BFS") /\ Returned("Dijkstra")) =>
    /\ EndsWithPath(traces["BFS"])
    /\ EndsWithPath(traces["Dijkstra"])
    /\ Len(traces["BFS"][Len(traces["BFS"])].path)
         = Len(traces["Dijkstra"][Len(traces["Dijkstra"])].path)
    /\ Len(traces["BFS"][Len(traces["BFS"])].path) = Manhattan + 1

C4_Witness ==
  /\ Returned("BFS") /\ Returned("Dijkstra")
  /\ dims = [rows |-> 3, cols |-> 3]
  /\ start = [row |-> 0, col |-> 0]
  /\ goal = [row |-> 2, col |-> 2]
  /\ Len(traces["Dijkstra"][Len(traces["Dijkstra"])].path) = 5

(***************************************************************************)
(* C5  On valid input the path returned by runAStar has as many            *)
(* coordinates as the one returned by runBFS, and the visited set of       *)
(* runAStar's path-bearing snapshot is no larger than that of runBFS's.    *)
(***************************************************************************)
C5_AStarVersusBFS ==
  (Valid /\ Returned("BFS") /\ Returned("AStar")) =>
    /\ EndsWithPath(traces["BFS"])
    /\ EndsWithPath(traces["AStar"])
    /\ Len(traces["AStar"][Len(traces["AStar"])].path)
         = Len(traces["BFS"][Len(traces["BFS"])].path)
    /\ Cardinality(traces["AStar"][Len(traces["AStar"])].visited)
         <= Cardinality(traces["BFS"][Len(traces["BFS"])].visited)

C5_Witness ==
  /\ Valid /\ Returned("BFS") /\ Returned("AStar")
  /\ Len(traces["AStar"][Len(traces["AStar"])].path) >= 4
  /\ Cardinality(traces["AStar"][Len(traces["AStar"])].visited)
       < Cardinality(traces["BFS"][Len(traces["BFS"])].visited)

(***************************************************************************)
(* C6  On valid input runDFSRecursive terminates and the final element of  *)
(* the returned trace is the snapshot carrying the path.                   *)
(***************************************************************************)
C6_DFSEndsWithPath ==
  (Valid /\ Returned("DFS")) => EndsWithPath(traces["DFS"])

(***************************************************************************)
(* C7  On valid input each of runBFS, runDijkstra and runAStar terminates, *)
(* and its trace contains exactly one snapshot carrying a path, which is   *)
(* the last element of the trace.                                          *)
(***************************************************************************)
C7_OnePathLast ==
  Valid => \A a \in {"BFS", "Dijkstra", "AStar"} :
             Returned(a) => PathIndices(traces[a]) = {Len(traces[a])}

C7_TerminatesWithPath ==
  /\ []C7_OnePathLast
  /\ <>(Valid => \A a \in {"BFS", "Dijkstra", "AStar"} : Returned(a))

C7_Witness ==
  /\ Valid
  /\ \A a \in {"BFS", "Dijkstra", "AStar"} :
       Returned(a) /\ Len(traces[a]) >= 5 /\ EndsWithPath(traces[a])

(***************************************************************************)
(* C8  An entry point called with non-positive rows or cols, or with a     *)
(* start or goal outside the grid, fails before any traversal begins: no   *)
(* snapshot is emitted and no trace is returned.                           *)
(***************************************************************************)
C8_InvalidInputRejected ==
  ~Valid => (steps = <<>> /\ traces = EmptyMap)

(***************************************************************************)
(* C9  When the goal is not a cell of the grid and so is never reached by  *)
(* the traversal (it is not the start either), each of the four algorithms *)
(* terminates normally and no snapshot of the trace carries a path.        *)
(***************************************************************************)
GoalUnreachable == goal \notin Cells(dims) /\ goal # start

C9_NoPathSnapshot ==
  GoalUnreachable =>
    /\ \A i \in 1..Len(steps) : ~HasPath(steps[i])
    /\ \A a \in DOMAIN traces : PathIndices(traces[a]) = {}

C9_TerminatesWithoutPath ==
  /\ []C9_NoPathSnapshot
  /\ <>(GoalUnreachable => (pc = "done" /\ \A a \in Algos : Returned(a)))

C9_Witness ==
  /\ pc = "done"
  /\ GoalUnreachable
  /\ start \in Cells(dims)
  /\ \A a \in Algos : Returned(a) /\ Len(traces[a]) >= 4

(***************************************************************************)
(* C10  When start equals goal, for every algorithm, the trace is one      *)
(* expansion snapshot with current = start followed by a snapshot whose    *)
(* path is exactly <<start>>, and no neighbour is ever explored (nothing   *)
(* but start is visited and no parent is recorded).                        *)
(***************************************************************************)
C10_StartIsGoal ==
  (start = goal) =>
    /\ parentMap = EmptyMap
    /\ \A a \in DOMAIN traces :
         /\ Len(traces[a]) = 2
         /\ HasCurrent(traces[a][1]) /\ ~HasPath(traces[a][1])
         /\ traces[a][1].current = start
         /\ HasPath(traces[a][2]) /\ ~HasCurrent(traces[a][2])
         /\ traces[a][2].path = <<start>>
         /\ traces[a][1].visited = {startStr}
         /\ traces[a][2].visited = {startStr}

C10_Witness ==
  /\ pc = "done"
  /\ start = goal
  /\ dims.rows >= 2 /\ dims.cols >= 2
  /\ start \in Cells(dims)
  /\ \A a \in Algos : Returned(a) /\ traces[a][2].path = <<start>>

\* The snapshots of the call of algorithm a: the trace under construction
\* while the call runs, the returned trace afterwards.
RunSnapshots(a) ==
  IF pc = a THEN steps ELSE IF Returned(a) THEN traces[a] ELSE <<>>

(***************************************************************************)
(* C11  (as stated) In every snapshot of a runBFS trace and of a           *)
(* runDFSRecursive trace the frontier set and the visited set are          *)
(* disjoint.                                                               *)
(***************************************************************************)
C11_FrontierVisitedDisjoint ==
  \A a \in {"BFS", "DFS"} : \A i \in 1..Len(RunSnapshots(a)) :
    RunSnapshots(a)[i].frontier \cap RunSnapshots(a)[i].visited = {}

(***************************************************************************)
(* C11  (amended) In every snapshot of a runBFS trace and of a             *)
(* runDFSRecursive trace the frontier set is a subset of the visited set:  *)
(* BFS marks a key visited when it discovers it and DFS when it enters it, *)
(* so every frontier key is already visited.                               *)
(***************************************************************************)
C11_FrontierWithinVisited ==
  \A a \in {"BFS", "DFS"} : \A i \in 1..Len(RunSnapshots(a)) :
    RunSnapshots(a)[i].frontier \subseteq RunSnapshots(a)[i].visited

C11_Witness ==
  /\ Returned("BFS") /\ Returned("DFS")
  /\ \E i \in 1..Len(traces["BFS"]) : Cardinality(traces["BFS"][i].frontier) >= 2
  /\ \E i \in 1..Len(traces["DFS"]) : Cardinality(traces["DFS"][i].frontier) >= 3

(***************************************************************************)
(* C12  In every snapshot of a runDijkstra trace and of a runAStar trace   *)
(* the frontier set and the visited set are disjoint: a key that has been  *)
(* dequeued and marked visited is never added back to the frontier.        *)
(***************************************************************************)
C12_FrontierVisitedDisjoint ==
  \A a \in {"Dijkstra", "AStar"} : \A i \in 1..Len(RunSnapshots(a)) :
    RunSnapshots(a)[i].frontier \cap RunSnapshots(a)[i].visited = {}

C12_Witness ==
  /\ pc = "AStar"
  /\ \E i \in 1..Len(pq) : pq[i].item \in visited
  /\ \E i \in 1..Len(steps) :
       /\ Cardinality(steps[i].frontier) >= 2
       /\ Cardinality(steps[i].visited) >= 3

(***************************************************************************)
(* C13  In every trace of runBFS, runDijkstra and runAStar the visited set *)
(* of each snapshot contains the visited set of the preceding snapshot.    *)
(***************************************************************************)
C13_VisitedMonotonic ==
  \A a \in {"BFS", "Dijkstra", "AStar"} :
    \A i \in 1..(Len(RunSnapshots(a)) - 1) :
      RunSnapshots(a)[i].visited \subseteq RunSnapshots(a)[i + 1].visited

C13_Witness ==
  /\ \A a \in {"BFS", "Dijkstra", "AStar"} :
       /\ Returned(a)
       /\ Len(traces[a]) >= 4
       /\ Cardinality(traces[a][1].visited)
            < Cardinality(traces[a][Len(traces[a])].visited)

(***************************************************************************)
(* C14  At every point of a run of any of the four algorithms the parent   *)
(* map is acyclic, the start key has no parent entry, and following the    *)
(* parent links from any key of the map reaches the start key in finitely  *)
(* many steps.                                                             *)
(***************************************************************************)
\* The key reached from k after at most n parent links; <<>> (no key) when
\* the links have not run out by then.
RECURSIVE RootOf(_, _, _)
RootOf(pm, k, n) ==
  IF k \notin DOMAIN pm THEN k
  ELSE IF n = 0 THEN <<>>
  ELSE RootOf(pm, pm[k], n - 1)

C14_ParentMapTree ==
  /\ startStr \notin DOMAIN parentMap
  /\ \A k \in DOMAIN parentMap :
       RootOf(parentMap, k, Cardinality(DOMAIN parentMap)) = startStr

C14_Witness ==
  /\ pc = "AStar"
  /\ Cardinality(DOMAIN parentMap) >= 6
  /\ \E k \in DOMAIN parentMap : \E j \in DOMAIN parentMap :
       parentMap[k] = j /\ parentMap[j] # startStr

(***************************************************************************)
(* C15  Once a snapshot has been appended to the trace, no later step of   *)
(* the same run changes it: the trace only grows by appending, and what a  *)
(* reader sees in the visited set, frontier set, cost map, current, depth  *)
(* and path of an emitted snapshot stays the same while the live           *)
(* structures change; a returned trace is never changed afterwards.        *)
(***************************************************************************)
\* What a reader of the set field x sees while the live set holds `live`.
SeenSet(x, live) == IF x = {Alias} THEN live ELSE x

SeenMap(x, live) == IF DOMAIN x = {Alias} THEN live ELSE x

LiveFrontier(a) == IF a = "DFS" THEN recursionStack ELSE frontier

LiveCost(a) == IF a = "AStar" THEN gScore ELSE distances

\* Snapshot s of a run of algorithm a as a reader sees it in this state.
Seen(s, a) ==
  [f \in DOMAIN s |->
     CASE f = "visited" -> SeenSet(s[f], visited)
       [] f = "frontier" -> SeenSet(s[f], LiveFrontier(a))
       [] f = "costMap" -> SeenMap(s[f], LiveCost(a))
       [] OTHER -> s[f]]

C15_SnapshotsImmutable ==
  [][/\ \A a \in Algos \cap {pc} :
          \A i \in 1..Len(steps) :
             /\ i <= Len(steps')
             /\ Seen(steps[i], a)' = Seen(steps[i], a)
     /\ \A a \in DOMAIN traces :
          a \in DOMAIN traces' /\ traces'[a] = traces[a]]_vars

C15_Witness ==
  /\ pc = "done"
  /\ \A a \in Algos :
       /\ Len(traces[a]) >= 5
       /\ traces[a][2].visited # traces[a][Len(traces[a])].visited
       /\ traces[a][2].frontier # traces[a][4].frontier

(***************************************************************************)
(* C16  In a runDFSRecursive trace every backtrack snapshot of a node      *)
(* carries the depth of that node's entry snapshot minus one; the          *)
(* backtrack snapshot of the start node carries depth -1.                  *)
(***************************************************************************)
\* An entry snapshot has its node on the recursion stack, a backtrack
\* snapshot has just taken it off.
IsEntry(s) == HasCurrent(s) /\ coordToString(s.current) \in s.frontier

IsBacktrack(s) == HasCurrent(s) /\ coordToString(s.current) \notin s.frontier

C16_BacktrackDepth ==
  \A j \in 1..Len(RunSnapshots("DFS")) :
    LET t == RunSnapshots("DFS")
    IN IsBacktrack(t[j]) =>
         /\ \E i \in 1..(j - 1) :
              /\ IsEntry(t[i])
              /\ t[i].current = t[j].current
              /\ t[j].depth = t[i].depth - 1
         /\ t[j].current = start => t[j].depth = -1

C16_Witness ==
  /\ Returned("DFS")
  /\ \E j \in 1..Len(traces["DFS"]) :
       IsBacktrack(traces["DFS"][j]) /\ traces["DFS"][j].depth >= 2
  /\ \E j \in 1..Len(traces["DFS"]) :
       /\ IsBacktrack(traces["DFS"][j])
       /\ traces["DFS"][j].current = start
       /\ traces["DFS"][j].depth = -1

(***************************************************************************)
(* C17  The queue holds exactly the multiset of (item, priority) pairs     *)
(* enqueued and not yet dequeued, duplicates included; every dequeue on a  *)
(* non-empty queue removes exactly one pair and returns the item of that   *)
(* pair; isEmpty() is true exactly when the multiset is empty.             *)
(***************************************************************************)
RECURSIVE SeqToBag(_)
SeqToBag(q) ==
  IF q = <<>> THEN EmptyBag ELSE SetToBag({Head(q)}) (+) SeqToBag(Tail(q))

C17_HoldsMultiset ==
  /\ SeqToBag(heap) = contents
  /\ BagCardinality(contents) = Len(heap)
  /\ isEmpty(heap) <=> (contents = EmptyBag)

C17_DequeueRemovesOne ==
  [][(Dequeue /\ contents # EmptyBag) =>
       \E p \in BagToSet(contents) :
         /\ ret' = p.item
         /\ SeqToBag(heap') = contents (-) SetToBag({p})]_vars

C17_Multiset == []C17_HoldsMultiset /\ C17_DequeueRemovesOne

C17_Witness ==
  /\ Len(heap) = 3
  /\ ret \in Items
  /\ \E p \in BagToSet(contents) : CopiesIn(p, contents) >= 2
  /\ Cardinality(BagToSet(contents)) >= 2

(***************************************************************************)
(* C18  dequeue() on an empty queue returns undefined and leaves the queue *)
(* empty and usable: an enqueue followed by a dequeue then behaves as on a *)
(* fresh queue, giving back the item just enqueued and an empty queue.     *)
(***************************************************************************)
C18_DequeueOnEmpty ==
  [][(Dequeue /\ heap = <<>>) =>
       /\ ret' = Undefined
       /\ heap' = <<>>
       /\ isEmpty(heap')
       /\ \A item \in Items, priority \in Priorities :
            /\ enqueue(heap', item, priority) = enqueue(<<>>, item, priority)
            /\ dequeue(enqueue(heap', item, priority))
                 = [result |-> item, heap |-> <<>>]]_vars

C18_Witness ==
  /\ ret = Undefined
  /\ heap = <<>>
  /\ drained # <<>>

(***************************************************************************)
(* C19  For every valid coordinate c, stringToCoord(coordToString(c)) = c, *)
(* and coordToString is injective on valid coordinates: two different      *)
(* coordinates never get the same key.                                     *)
(***************************************************************************)
C19_CodecRoundTrip ==
  /\ decoded # <<>> => decoded = coords
  /\ (keys # <<>> /\ coords[1] # coords[2]) => keys[1] # keys[2]

C19_Witness ==
  /\ decoded # <<>>
  /\ coords[1] = [row |-> 1, col |-> 11]
  /\ coords[2] = [row |-> 11, col |-> 1]

(***************************************************************************)
(* C20  In every runDijkstra and runAStar trace no key is dequeued and     *)
(* expanded more than once: each key is the current node of at most one    *)
(* expansion snapshot.                                                     *)
(***************************************************************************)
ExpandedOnce(t) ==
  \A i \in 1..Len(t) : \A j \in (i + 1)..Len(t) :
    (HasCurrent(t[i]) /\ HasCurrent(t[j])) => t[i].current # t[j].current

C20_ExpandedOnce ==
  \A a \in {"Dijkstra", "AStar"} : ExpandedOnce(RunSnapshots(a))

\* The case: a key that is already visited is still in the queue of a run.
StaleEntry ==
  /\ pc \in {"Dijkstra", "AStar"}
  /\ \E i \in 1..Len(pq) : pq[i].item \in visited

(***************************************************************************)
(* C21  In runDijkstra the expansion snapshot of a dequeued key is emitted *)
(* before the key is marked visited: the visited set of each expansion     *)
(* snapshot holds exactly the keys dequeued strictly earlier and does not  *)
(* hold the snapshot's current node.                                       *)
(***************************************************************************)
\* The keys of the current nodes of the expansion snapshots before the i-th.
ExpandedBefore(t, i) ==
  {coordToString(t[j].current) : j \in {k \in 1..(i - 1) : HasCurrent(t[k])}}

C21_SnapshotBeforeVisited ==
  \A i \in 1..Len(RunSnapshots("Dijkstra")) :
    LET t == RunSnapshots("Dijkstra")
    IN HasCurrent(t[i]) =>
         /\ t[i].visited = ExpandedBefore(t, i)
         /\ coordToString(t[i].current) \notin t[i].visited

(***************************************************************************)
(* C22  In runBFS no key is added to the FIFO work-list more than once,    *)
(* and in runBFS and runDFSRecursive the parent-map entry of a key is      *)
(* written once and never overwritten.                                     *)
(***************************************************************************)
C22_PushedOnce ==
  \A i \in 1..Len(pushed) : \A j \in (i + 1)..Len(pushed) :
    pushed[i] # pushed[j]

C22_ParentKept ==
  [][(pc \in {"BFS", "DFS"}) =>
       (\A k \in DOMAIN parentMap :
          k \in DOMAIN parentMap' /\ parentMap'[k] = parentMap[k])]_vars

C22_FirstDiscoveryWins == []C22_PushedOnce /\ C22_ParentKept

C22_Witness ==
  /\ pc = "DFS"
  /\ Len(pushed) >= 6
  /\ Cardinality(DOMAIN parentMap) >= 5

(***************************************************************************)
(* C23  For the same grid, start and goal, runDijkstra expands nodes in    *)
(* the same order as runBFS: the sequence of the current nodes of the      *)
(* Dijkstra expansion snapshots is identical to that of the BFS expansion  *)
(* snapshots.                                                              *)
(***************************************************************************)
RECURSIVE Currents(_)
Currents(t) ==
  IF t = <<>> THEN <<>>
  ELSE IF HasCurrent(Head(t)) THEN <<Head(t).current>> \o Currents(Tail(t))
  ELSE Currents(Tail(t))

Level(c) == Abs(c.row - start.row) + Abs(c.col - start.col)

Levels(q) == [i \in 1..Len(q) |-> Level(q[i])]

NodesAtLevel(q, d) == {q[i] : i \in {k \in 1..Len(q) : Level(q[k]) = d}}

C24_NoEntryAfterPath ==
  \A i \in PathIndices(RunSnapshots("DFS")) :
    \A j \in (i + 1)..Len(RunSnapshots("DFS")) :
      ~IsEntry(RunSnapshots("DFS")[j])

C24_FrozenAfterFound ==
  [][(pc = "DFS" /\ found) =>
       (visited' = visited /\ parentMap' = parentMap)]_vars

C24_NothingAfterFound == []C24_NoEntryAfterPath /\ C24_FrozenAfterFound

\* The goal is found with a loop of a caller still under way.
C24_Witness ==
  /\ pc = "DFS"
  /\ found
  /\ \E k \in 1..Len(frames) : frames[k].i \in 1..(Len(DIRECTIONS) - 1)
  /\ Cardinality(Cells(dims) \ {stringToCoord(k) : k \in visited}) >= 2

(***************************************************************************)
(* C25  In every snapshot of a runDFSRecursive trace that carries a depth  *)
(* (entry and backtrack snapshots alike) the depth is the size of the      *)
(* snapshot's frontier, the recursion stack, minus one; in the             *)
(* path-bearing snapshot the set of the keys of the path is the frontier.  *)
(***************************************************************************)
C25_DepthIsStackSize ==
  \A i \in 1..Len(RunSnapshots("DFS")) :
    LET s == RunSnapshots("DFS")[i]
    IN /\ "depth" \in DOMAIN s => s.depth = Cardinality(s.frontier) - 1
       /\ HasPath(s) =>
            {coordToString(s.path[k]) : k \in 1..Len(s.path)} = s.frontier

(***************************************************************************)
(* C26  In every snapshot of a runDijkstra trace every entry of the cost   *)
(* map is the Manhattan distance from start to that key; in every snapshot *)
(* of a runAStar trace the cost-map entry of every key of the visited set  *)
(* is the Manhattan distance from start to that key.                       *)
(***************************************************************************)
CostIsDistance(s, ks) ==
  \A k \in ks : k \in DOMAIN s.costMap /\ s.costMap[k] = Level(stringToCoord(k))

C26_CostIsManhattan ==
  /\ \A i \in 1..Len(RunSnapshots("Dijkstra")) :
       CostIsDistance(RunSnapshots("Dijkstra")[i],
                      DOMAIN RunSnapshots("Dijkstra")[i].costMap)
  /\ \A i \in 1..Len(RunSnapshots("AStar")) :
       CostIsDistance(RunSnapshots("AStar")[i],
                      RunSnapshots("AStar")[i].visited)

\* A runAStar snapshot where a key not yet visited has a cost above its
\* distance, after a runDijkstra trace with costs of 3 or more.
C26_Witness ==
  /\ Returned("Dijkstra")
  /\ \E k \in DOMAIN traces["Dijkstra"][Len(traces["Dijkstra"])].costMap :
       traces["Dijkstra"][Len(traces["Dijkstra"])].costMap[k] >= 3
  /\ \E i \in 1..Len(RunSnapshots("AStar")) :
       LET s == RunSnapshots("AStar")[i]
       IN /\ Cardinality(s.visited) >= 3
          /\ \E k \in DOMAIN s.costMap :
               s.costMap[k] > Level(stringToCoord(k))

(***************************************************************************)
(* C27  In every expansion snapshot of runDijkstra and runAStar the        *)
(* frontier is exactly the set of the keys that have a cost-map entry and  *)
(* are not in visited, and it is the set of the distinct keys held in the  *)
(* priority queue at that moment; in every runBFS expansion snapshot the   *)
(* frontier is the set of the keys in the FIFO work-list.                  *)
(***************************************************************************)
\* The call whose snapshots steps and held describe.
LastCall ==
  CASE pc \in {"BFS", "callDFS"} -> "BFS"
    [] pc \in {"Dijkstra", "callAStar"} -> "Dijkstra"
    [] pc \in {"AStar", "done"} -> "AStar"
    [] OTHER -> "none"

FrontierIsUnvisitedCosts ==
  LastCall \in {"Dijkstra", "AStar"} =>
    \A i \in 1..Len(steps) :
      HasCurrent(steps[i]) =>
        steps[i].frontier = DOMAIN steps[i].costMap \ steps[i].visited

FrontierIsWorkList(calls) ==
  LastCall \in calls =>
    \A i \in 1..Len(steps) :
      HasCurrent(steps[i]) => steps[i].frontier = held[i]

C27_FrontierIsQueue ==
  /\ FrontierIsUnvisitedCosts
  /\ FrontierIsWorkList({"BFS", "Dijkstra", "AStar"})

(***************************************************************************)
(* C27  (amended) In every expansion snapshot of runDijkstra and runAStar  *)
(* the frontier is exactly the set of the keys that have a cost-map entry  *)
(* and are not in visited, and it is the set of the distinct keys held in  *)
(* the priority queue at that moment that are not in visited (the queue of *)
(* runAStar may also hold out-of-date entries of visited keys; that of     *)
(* runDijkstra holds no visited key); in every runBFS expansion snapshot   *)
(* the frontier is the set of the keys in the FIFO work-list.              *)
(***************************************************************************)
C27_FrontierIsUnvisitedQueue ==
  /\ FrontierIsUnvisitedCosts
  /\ FrontierIsWorkList({"BFS", "Dijkstra"})
  /\ LastCall = "AStar" =>
       \A i \in 1..Len(steps) :
         HasCurrent(steps[i]) =>
           steps[i].frontier = held[i] \ steps[i].visited

\* A runAStar expansion snapshot taken while the queue holds a visited key.
C27_Witness ==
  /\ LastCall = "AStar"
  /\ \E i \in 1..Len(steps) :
       /\ HasCurrent(steps[i])
       /\ held[i] \cap steps[i].visited # {}
  /\ \E j \in 1..Len(steps) :
       /\ HasCurrent(steps[j])
       /\ Cardinality(steps[j].frontier) >= 2

(***************************************************************************)
(* C28  App replay, under any interleaving of timer ticks and key events:  *)
(* the game status becomes FINISHED only in a step that leaves the player  *)
(* on the goal; the algorithm step index never exceeds the trace length    *)
(* minus one; whenever the status is FINISHED the winner is set, and it is *)
(* ALGORITHM only if the algorithm had finished before that step.          *)
(***************************************************************************)
C28_IndexAndWinner ==
  /\ gameStatus \in {"PLAYING", "FINISHED"} =>
       algoStepIndex <= Len(algoHistory) - 1
  /\ gameStatus = "FINISHED" => winner \in {"PLAYER", "ALGORITHM"}

C28_FinishedByPlayer ==
  [][(gameStatus # "FINISHED" /\ gameStatus' = "FINISHED") =>
       /\ gameStatus = "PLAYING"
       /\ playerPos' = goalPos'
       /\ (winner' = "ALGORITHM") => algoFinished]_vars

C28_Replay == []C28_IndexAndWinner /\ C28_FinishedByPlayer

\* The algorithm has replayed its whole trace, the player wins or loses after.
C28_Witness ==
  /\ gameStatus = "FINISHED"
  /\ winner = "ALGORITHM"
  /\ algoStepIndex = Len(algoHistory) - 1
  /\ Len(algoHistory) >= 5
  /\ selectedAlgo = "AStar"

====
